---------------------------- MODULE Spec2Model ----------------------------
(***************************************************************************)
(* A model of querybuilder.QueryBuilder (src/querybuilder.py).             *)
(*                                                                         *)
(* Text is a sequence of one-character strings.  A Python value handed to  *)
(* render is a record [type, size, items]: its type name, its len() (or    *)
(* its value, for an int) and, for a dict, its key/value pairs.  A         *)
(* renderer is the three attributes original, prefix and template; every   *)
(* call of render is appended to log together with the intermediate texts  *)
(* of its post-processing.                                                 *)
(***************************************************************************)
EXTENDS Naturals, Sequences, FiniteSets

VARIABLES original, prefix, template, args, log

vars == <<original, prefix, template, args, log>>

-----------------------------------------------------------------------------
(* Bounds of the model *)

MaxText == 5

MaxFragments == 2

MaxCalls == 3

-----------------------------------------------------------------------------
(* Text helpers *)

NL == "\n"

Min(S) == CHOOSE m \in S : \A n \in S : m <= n

Max(S) == CHOOSE m \in S : \A n \in S : n <= m

RECURSIVE Flatten(_)
Flatten(ss) == IF ss = <<>> THEN <<>> ELSE Head(ss) \o Flatten(Tail(ss))

StartsWith(t, p) == Len(p) <= Len(t) /\ SubSeq(t, 1, Len(p)) = p

Drop(t, n) == SubSeq(t, n + 1, Len(t))

-----------------------------------------------------------------------------
(* Python values *)

None == [type |-> "NoneType", size |-> 0, items |-> {}]

Dict(kvs) == [type |-> "dict", size |-> Cardinality(kvs), items |-> kvs]

List(n) == [type |-> "list", size |-> n, items |-> {}]

Int(n) == [type |-> "int", size |-> n, items |-> {}]

Str(t) == [type |-> "str", size |-> Len(t), items |-> {}]

Supplied(t) == [supplied |-> TRUE, str |-> t]

NotSupplied == [supplied |-> FALSE, str |-> <<>>]

(* type(self).__name__ *)
TypeName == <<"Q", "u", "e", "r", "y", "B", "u", "i", "l", "d", "e", "r">>

-----------------------------------------------------------------------------
(* The template engine: jinja2.Template(statements) and Template.render.   *)
(* Modelled are literal text, "{{k}}" (an undefined name prints as empty   *)
(* text) and "{{k.a}}" (an attribute of an undefined name raises           *)
(* UndefinedError; a string has no attribute a, which prints as empty      *)
(* text), and the lexer's removal of one trailing newline of the source.   *)

Lit(c) == [kind |-> "lit", name |-> c]

Var(k) == [kind |-> "var", name |-> k]

Attr(k) == [kind |-> "attr", name |-> k]

OpenVar == <<"{", "{">>

CloseVar == <<"}", "}">>

CloseAttr == <<".", "a", "}", "}">>

RECURSIVE Lex(_)
Lex(s) ==
    IF s = <<>> THEN <<>>
    ELSE IF StartsWith(s, OpenVar) /\ Len(s) >= 3 /\ StartsWith(Drop(s, 3), CloseVar)
         THEN <<Var(s[3])>> \o Lex(Drop(s, 5))
    ELSE IF StartsWith(s, OpenVar) /\ Len(s) >= 3 /\ StartsWith(Drop(s, 3), CloseAttr)
         THEN <<Attr(s[3])>> \o Lex(Drop(s, 7))
    ELSE <<Lit(Head(s))>> \o Lex(Tail(s))

Compile(statements) ==
    IF statements # <<>> /\ statements[Len(statements)] = NL
    THEN Lex(SubSeq(statements, 1, Len(statements) - 1))
    ELSE Lex(statements)

Bound(params, k) == \E kv \in params.items : kv[1] = k

Lookup(params, k) == (CHOOSE kv \in params.items : kv[1] = k)[2]

Undefined(tpl, params) ==
    {i \in DOMAIN tpl : tpl[i].kind = "attr" /\ ~Bound(params, tpl[i].name)}

RECURSIVE Emit(_, _)
Emit(tpl, params) ==
    IF tpl = <<>> THEN <<>>
    ELSE LET tok == Head(tpl)
             out == IF tok.kind = "lit" THEN <<tok.name>>
                    ELSE IF tok.kind = "var" /\ Bound(params, tok.name)
                         THEN Lookup(params, tok.name)
                    ELSE <<>>
         IN  out \o Emit(Tail(tpl), params)

EngineRender(tpl, params) ==
    IF Undefined(tpl, params) # {}
    THEN [ok |-> FALSE, text |-> <<>>, error |-> "UndefinedError"]
    ELSE [ok |-> TRUE, text |-> Emit(tpl, params), error |-> ""]

-----------------------------------------------------------------------------
(* QueryBuilder.__init__ *)

Truthy(v) == v.supplied /\ v.str # <<>>

Construct(statements, pfx) ==
    [original |-> statements,
     prefix   |-> IF Truthy(pfx) THEN pfx.str ELSE TypeName,
     template |-> Compile(statements)]

-----------------------------------------------------------------------------
(* QueryBuilder.render: the post-processing of the rendered text *)

(* re.sub(r'\/[*][^*]*?[*]\/', '', rendered, flags=re.M)                   *)
(* LazyNonStar is [^*]*?[*]\/ tried at j: the index of the closing '/' or  *)
(* 0 when there is no match.                                               *)
RECURSIVE LazyNonStar(_, _)
LazyNonStar(t, j) ==
    IF j + 1 <= Len(t) /\ t[j] = "*" /\ t[j + 1] = "/" THEN j + 1
    ELSE IF j <= Len(t) /\ t[j] # "*" THEN LazyNonStar(t, j + 1)
    ELSE 0

BlockMatch(t, i) ==
    IF i + 1 <= Len(t) /\ t[i] = "/" /\ t[i + 1] = "*"
    THEN LazyNonStar(t, i + 2)
    ELSE 0

RECURSIVE SubBlock(_, _)
SubBlock(t, i) ==
    IF i > Len(t) THEN <<>>
    ELSE IF BlockMatch(t, i) > 0 THEN SubBlock(t, BlockMatch(t, i) + 1)
    ELSE <<t[i]>> \o SubBlock(t, i + 1)

StripBlock(t) == SubBlock(t, 1)

(* re.sub(r'(--|#).*?\n', '', rendered)                                    *)
(* LazyDot is .*?\n tried at j: the index of the newline or 0.             *)
RECURSIVE LazyDot(_, _)
LazyDot(t, j) ==
    IF j <= Len(t) /\ t[j] = NL THEN j
    ELSE IF j <= Len(t) THEN LazyDot(t, j + 1)
    ELSE 0

LineMatch(t, i) ==
    IF i + 1 <= Len(t) /\ t[i] = "-" /\ t[i + 1] = "-" THEN LazyDot(t, i + 2)
    ELSE IF t[i] = "#" THEN LazyDot(t, i + 1)
    ELSE 0

RECURSIVE SubLine(_, _)
SubLine(t, i) ==
    IF i > Len(t) THEN <<>>
    ELSE IF LineMatch(t, i) > 0 THEN SubLine(t, LineMatch(t, i) + 1)
    ELSE <<t[i]>> \o SubLine(t, i + 1)

StripLine(t) == SubLine(t, 1)

(* rendered.split(';') *)
RECURSIVE SplitFrom(_, _, _)
SplitFrom(t, i, cur) ==
    IF i > Len(t) THEN <<cur>>
    ELSE IF t[i] = ";" THEN <<cur>> \o SplitFrom(t, i + 1, <<>>)
    ELSE SplitFrom(t, i + 1, Append(cur, t[i]))

Split(t) == SplitFrom(t, 1, <<>>)

(* statement.strip() *)
Whitespace == {" ", "\t", "\n", "\r"}

RECURSIVE LStrip(_)
LStrip(t) == IF t # <<>> /\ Head(t) \in Whitespace THEN LStrip(Tail(t)) ELSE t

RECURSIVE RStrip(_)
RStrip(t) ==
    IF t # <<>> /\ t[Len(t)] \in Whitespace
    THEN RStrip(SubSeq(t, 1, Len(t) - 1))
    ELSE t

(* Mutant: lstrip() in place of strip() *)
StripLeftOnly(t) == LStrip(t)

Strip(t) == RStrip(LStrip(t))

(* '%s' % n for a positive integer *)
Digits == <<"0", "1", "2", "3", "4", "5", "6", "7", "8", "9">>

RECURSIVE Decimal(_)
Decimal(n) ==
    IF n < 10 THEN <<Digits[n + 1]>>
    ELSE Decimal(n \div 10) \o <<Digits[(n % 10) + 1]>>

(* stmt % (self.prefix, index+1, statement), stmt = '-- %s (#%s) --\n%s\n' *)
Format(pfx, ordinal, statement) ==
    <<"-", "-", " ">> \o pfx \o <<" ", "(", "#">> \o Decimal(ordinal)
        \o <<")", " ", "-", "-", NL>> \o statement \o <<NL>>

Ordinal(index) == index + 1

(* Mutant: the ordinal counts the units emitted so far *)
StatementsRenumbered(pfx, rendered, index) ==
    LET kept == {k \in (index + 1)..Len(rendered) : Strip(rendered[k]) # <<>>}
        Nth(k) == Cardinality({m \in 1..k : Strip(rendered[m]) # <<>>})
    IN  [j \in 1..Cardinality(kept) |->
            LET k == CHOOSE k \in kept : Cardinality({m \in kept : m < k}) = j - 1
            IN  Format(pfx, Nth(k), Strip(rendered[k]))]

(* for index, statement in enumerate(rendered): ... ; index is 0-based *)
RECURSIVE Statements(_, _, _)
Statements(pfx, rendered, index) ==
    IF index >= Len(rendered) THEN <<>>
    ELSE LET statement == Strip(rendered[index + 1])
         IN  (IF statement # <<>>
              THEN <<Format(pfx, Ordinal(index), statement)>>
              ELSE <<>>) \o Statements(pfx, rendered, index + 1)

-----------------------------------------------------------------------------
(* QueryBuilder.render *)

(* Mutant: "if not params" in place of "if params is None" *)
DefaultParamsFalsy(params) == IF params.size = 0 THEN Dict({}) ELSE params

(* Mutant: no default for an omitted argument *)
DefaultParamsKept(params) == params

DefaultParams(params) == IF params = None THEN Dict({}) ELSE params

IsDict(params) == params.type = "dict"

(* Mutant: render stores its stripped output as the original *)
RenderSelfStoresOutput(self, params) ==
    LET eng == EngineRender(self.template, DefaultParams(params))
    IN  IF IsDict(DefaultParams(params)) /\ eng.ok
        THEN [self EXCEPT !.original = StripLine(StripBlock(eng.text))]
        ELSE self

(* Mutant: render writes the header's leading marker into the prefix *)
RenderSelfRelabels(self, params) ==
    [self EXCEPT !.prefix = <<"-", "-", " ">> \o self.prefix]

(* The renderer's attributes after a call of render *)
RenderSelf(self, params) == self

RenderCall(self, p) ==
    LET params == DefaultParams(p)
        eng    == EngineRender(self.template, params)
        block  == StripBlock(eng.text)
        line   == StripLine(block)
    IN  IF ~IsDict(params)
        THEN [params |-> p, kind |-> "TypeError", detail |-> params.type,
              engine |-> FALSE, raw |-> <<>>, block |-> <<>>, line |-> <<>>,
              units |-> <<>>]
        ELSE IF ~eng.ok
        THEN [params |-> p, kind |-> eng.error, detail |-> "",
              engine |-> TRUE, raw |-> <<>>, block |-> <<>>, line |-> <<>>,
              units |-> <<>>]
        ELSE [params |-> p, kind |-> "ok", detail |-> "",
              engine |-> TRUE, raw |-> eng.text, block |-> block, line |-> line,
              units |-> Statements(self.prefix, Split(line), 0)]

Self == [original |-> original, prefix |-> prefix, template |-> template]

Render(p) ==
    /\ Len(log) < MaxCalls
    /\ log' = Append(log, RenderCall(Self, p))
    /\ original' = RenderSelf(Self, p).original
    /\ prefix' = RenderSelf(Self, p).prefix
    /\ template' = RenderSelf(Self, p).template
    /\ UNCHANGED args

-----------------------------------------------------------------------------
(* Inputs *)

TextAlphabet == {"s", ";", " ", NL, "-", "#", "/", "*"}

Texts == UNION {[1..n -> TextAlphabet] : n \in 0..MaxText}

Fragments ==
    {<<"s">>, <<";">>, <<"#", "c", NL>>,
     <<"{", "{", "x", "}", "}">>,
     <<"{", "{", "y", ".", "a", "}", "}">>}

Templates ==
    {Flatten(fs) : fs \in UNION {[1..n -> Fragments] : n \in 0..MaxFragments}}

Prefixes == {NotSupplied, Supplied(<<>>), Supplied(<<"p">>)}

Bindings == Dict({<<"x", <<";", "s">>>>, <<"y", <<"s">>>>})

Params == {None, Dict({}), Bindings, List(0), List(3), Int(0), Str(<<>>)}

TextParams == {Dict({})}

Constructed(statements, pfx) ==
    /\ args = [statements |-> statements, prefix |-> pfx]
    /\ original = Construct(statements, pfx).original
    /\ prefix = Construct(statements, pfx).prefix
    /\ template = Construct(statements, pfx).template
    /\ log = <<>>

Init == \E statements \in Templates : \E pfx \in Prefixes : Constructed(statements, pfx)

Next == \E p \in Params : Render(p)

Spec == Init /\ [][Next]_vars

InitText == \E statements \in Texts : \E pfx \in {NotSupplied} : Constructed(statements, pfx)

NextText == \E p \in TextParams : Render(p)

SpecText == InitText /\ [][NextText]_vars

-----------------------------------------------------------------------------
(* What the claims speak of, stated without the code's loops *)

Range(f) == {f[i] : i \in DOMAIN f}

OkCalls == {i \in DOMAIN log : log[i].kind = "ok"}

(* The raw segments of a text: what lies between consecutive ';' *)
Delims(t) == {i \in DOMAIN t : t[i] = ";"}

NumSegments(t) == Cardinality(Delims(t)) + 1

KthDelim(t, k) ==
    CHOOSE i \in Delims(t) : Cardinality({j \in Delims(t) : j < i}) = k - 1

Segment(t, k) ==
    LET first == IF k = 1 THEN 1 ELSE KthDelim(t, k - 1) + 1
        last  == IF k = NumSegments(t) THEN Len(t) ELSE KthDelim(t, k) - 1
    IN  SubSeq(t, first, last)

Blank(s) == \A i \in DOMAIN s : s[i] \in Whitespace

Trimmed(s) ==
    LET solid == {i \in DOMAIN s : s[i] \notin Whitespace}
    IN  IF solid = {} THEN <<>> ELSE SubSeq(s, Min(solid), Max(solid))

NonBlank(t) == {k \in 1..NumSegments(t) : ~Blank(Segment(t, k))}

(* The j-th smallest element of a set of positions *)
Kth(S, j) == CHOOSE k \in S : Cardinality({m \in S : m < k}) = j - 1

(* Reading a unit "-- <prefix> (#<ordinal>) --\n<statement>\n" back *)
HeaderStart(pfx) == <<"-", "-", " ">> \o pfx \o <<" ", "(", "#">>

DigitValue(c) == CHOOSE d \in 0..9 : Digits[d + 1] = c

RECURSIVE DigitsEnd(_, _)
DigitsEnd(u, i) ==
    IF i <= Len(u) /\ u[i] \in Range(Digits) THEN DigitsEnd(u, i + 1) ELSE i

RECURSIVE ParseDecimal(_, _, _)
ParseDecimal(u, i, acc) ==
    IF i <= Len(u) /\ u[i] \in Range(Digits)
    THEN ParseDecimal(u, i + 1, 10 * acc + DigitValue(u[i]))
    ELSE acc

HeaderOrdinal(u, pfx) == ParseDecimal(u, Len(HeaderStart(pfx)) + 1, 0)

HeaderEnd == <<")", " ", "-", "-", NL>>

UnitStatement(u, pfx) ==
    LET e == DigitsEnd(u, Len(HeaderStart(pfx)) + 1)
    IN  SubSeq(u, e + Len(HeaderEnd), Len(u) - 1)

UnitWellFormed(u, pfx) ==
    LET e == DigitsEnd(u, Len(HeaderStart(pfx)) + 1)
    IN  /\ StartsWith(u, HeaderStart(pfx))
        /\ e > Len(HeaderStart(pfx)) + 1
        /\ SubSeq(u, e, e + Len(HeaderEnd) - 1) = HeaderEnd
        /\ u # <<>> /\ u[Len(u)] = NL

(* Block comments: from "/*" to the first following "*/" *)
Closings(t, i) ==
    {j \in (i + 2)..(Len(t) - 1) : t[j] = "*" /\ t[j + 1] = "/"}

OpensBlock(t, i) ==
    i + 1 <= Len(t) /\ t[i] = "/" /\ t[i + 1] = "*" /\ Closings(t, i) # {}

RECURSIVE WithoutBlocksFrom(_, _)
WithoutBlocksFrom(t, i) ==
    IF i > Len(t) THEN <<>>
    ELSE IF OpensBlock(t, i) THEN WithoutBlocksFrom(t, Min(Closings(t, i)) + 2)
    ELSE <<t[i]>> \o WithoutBlocksFrom(t, i + 1)

WithoutBlockComments(t) == WithoutBlocksFrom(t, 1)

(* Line comments: from the first "--" or "#" of a line through the end of  *)
(* that line, its newline included when it has one                         *)
MarksLine(t, i) ==
    \/ t[i] = "#"
    \/ i + 1 <= Len(t) /\ t[i] = "-" /\ t[i + 1] = "-"

LineEnd(t, i) ==
    LET ends == {j \in i..Len(t) : t[j] = NL}
    IN  IF ends = {} THEN Len(t) ELSE Min(ends)

RECURSIVE WithoutLinesFrom(_, _)
WithoutLinesFrom(t, i) ==
    IF i > Len(t) THEN <<>>
    ELSE IF MarksLine(t, i) THEN WithoutLinesFrom(t, LineEnd(t, i) + 1)
    ELSE <<t[i]>> \o WithoutLinesFrom(t, i + 1)

WithoutLineComments(t) == WithoutLinesFrom(t, 1)

WithoutComments(t) == WithoutLineComments(WithoutBlockComments(t))

(* Some ';' of the text lies inside a comment *)
DelimiterInComment(t) ==
    Cardinality(Delims(WithoutComments(t))) < Cardinality(Delims(t))

-----------------------------------------------------------------------------
(* C1: the ordinal in the header of the j-th unit of a call is the 1-based *)
(* position, among all raw segments of the comment-stripped text, of the   *)
(* j-th non-blank segment; blank segments consume a position.              *)
C1_OrdinalIsRawPosition ==
    \A i \in OkCalls :
        LET kept == NonBlank(log[i].line)
        IN  \A j \in DOMAIN log[i].units :
                /\ j <= Cardinality(kept)
                /\ UnitWellFormed(log[i].units[j], prefix)
                /\ HeaderOrdinal(log[i].units[j], prefix) = Kth(kept, j)

(* Raw segments [s1, blank, s3] gave units numbered 1 and 3 *)
C1_Witness ==
    \E i \in OkCalls :
        /\ NumSegments(log[i].line) = 3
        /\ Blank(Segment(log[i].line, 2))
        /\ Len(log[i].units) = 2
        /\ HeaderOrdinal(log[i].units[1], prefix) = 1
        /\ HeaderOrdinal(log[i].units[2], prefix) = 3

(* C2: the statement texts of the units of a call, in order, are the       *)
(* trimmed non-blank raw segments of the comment-stripped text, in order:  *)
(* no unit for a blank segment, no non-blank segment dropped, no reorder.  *)
C2_UnitsAreNonBlankSegments ==
    \A i \in OkCalls :
        LET kept == NonBlank(log[i].line)
        IN  /\ Len(log[i].units) = Cardinality(kept)
            /\ \A j \in DOMAIN log[i].units :
                   /\ UnitStatement(log[i].units[j], prefix)
                          = Trimmed(Segment(log[i].line, Kth(kept, j)))
                   /\ UnitStatement(log[i].units[j], prefix) # <<>>

(* A call that dropped a blank segment and trimmed a kept one on both sides *)
C2_Witness ==
    \E i \in OkCalls :
        /\ Len(log[i].units) = 1
        /\ NumSegments(log[i].line) = 2
        /\ \E k \in NonBlank(log[i].line) :
               LET seg == Segment(log[i].line, k)
               IN  /\ Len(seg) >= 3
                   /\ seg[1] \in Whitespace
                   /\ seg[Len(seg)] \in Whitespace

(* C3: a supplied bindings argument that is not a mapping, falsy or not,   *)
(* fails with TypeError carrying its type, returns no unit and never       *)
(* reaches the engine; a mapping or an omitted argument never fails so.    *)
C3_NonMappingRejected ==
    \A i \in DOMAIN log :
        IF log[i].params.type \in {"dict", "NoneType"}
        THEN log[i].kind # "TypeError"
        ELSE /\ log[i].kind = "TypeError"
             /\ log[i].detail = log[i].params.type
             /\ log[i].units = <<>>
             /\ ~log[i].engine

(* Calls with [], with 0, with '' and with a three-element list, all rejected *)
C3_Witness ==
    /\ \E i \in DOMAIN log : log[i].params = List(0) /\ log[i].kind = "TypeError"
    /\ \E i \in DOMAIN log : log[i].params = Int(0) /\ log[i].kind = "TypeError"
    /\ \E i \in DOMAIN log : log[i].params \in {Str(<<>>), List(3)}
                                /\ log[i].kind = "TypeError"

(* C4: the block-comment pass deletes exactly the substrings from "/*" to  *)
(* the first following "*/", whatever lies between them.                   *)
C4_BlockCommentsRemoved ==
    \A i \in OkCalls : log[i].block = WithoutBlockComments(log[i].raw)

(* C5: the line-comment pass deletes, on every line, the text from the     *)
(* first "--" or "#" through the end of the line, the last line included   *)
(* when no newline ends it.                                                *)
C5_LineCommentsRemoved ==
    \A i \in OkCalls : log[i].line = WithoutLineComments(log[i].block)

(* C6: after any calls of render the renderer holds the constructor's      *)
(* template text verbatim, and the prefix and the compiled template it was *)
(* constructed with.                                                       *)
C6_RendererUnchanged ==
    /\ original = args.statements
    /\ prefix = Construct(args.statements, args.prefix).prefix
    /\ template = Construct(args.statements, args.prefix).template

(* A failing and a successful call were made, and the successful one       *)
(* stripped a comment from its output                                      *)
C6_Witness ==
    /\ \E i \in DOMAIN log : log[i].kind # "ok"
    /\ \E i \in OkCalls : log[i].line # log[i].raw /\ log[i].units # <<>>

(* C7: two calls with identical bindings have identical outcomes, whatever *)
(* calls were made before or between them.                                 *)
C7_SameBindingsSameOutput ==
    \A i, j \in DOMAIN log :
        log[i].params = log[j].params =>
            /\ log[i].kind = log[j].kind
            /\ log[i].detail = log[j].detail
            /\ log[i].units = log[j].units

(* Two successful calls with the same bindings around a failing call *)
C7_Witness ==
    /\ Len(log) = 3
    /\ log[1].params = log[3].params
    /\ log[1].units # <<>>
    /\ log[2].kind # "ok"

(* C8: the header carries the prefix given to the constructor for every    *)
(* supplied string, the empty one included; the default label appears if   *)
(* and only if no prefix was supplied.                                     *)
C8_HeaderCarriesSuppliedPrefix ==
    \A i \in OkCalls :
        \A j \in DOMAIN log[i].units :
            /\ args.prefix.supplied =>
                   UnitWellFormed(log[i].units[j], args.prefix.str)
            /\ UnitWellFormed(log[i].units[j], TypeName) <=> ~args.prefix.supplied

(* C9: render() and render({}) on one renderer have the same outcome: the  *)
(* same units or the same engine error.                                    *)
C9_OmittedIsEmptyMapping ==
    \A i, j \in DOMAIN log :
        log[i].params = None /\ log[j].params = Dict({}) =>
            /\ log[i].kind = log[j].kind
            /\ log[i].detail = log[j].detail
            /\ log[i].units = log[j].units
            /\ log[i].engine = log[j].engine

(* Both calls were made and returned units *)
C9_Witness ==
    \E i, j \in DOMAIN log :
        /\ log[i].params = None
        /\ log[j].params = Dict({})
        /\ log[i].units # <<>>

(* C10: a ';' inside a block or line comment of the rendered text is no    *)
(* delimiter: the raw segments and the units are those of the rendered     *)
(* text with its comments absent.                                          *)
C10_NoDelimiterInsideComments ==
    \A i \in OkCalls :
        DelimiterInComment(log[i].raw) =>
            /\ NumSegments(log[i].line) = NumSegments(WithoutComments(log[i].raw))
            /\ log[i].units
                   = Statements(prefix, Split(WithoutComments(log[i].raw)), 0)

=============================================================================
